---- MODULE Spec2Model ----
(***************************************************************************)
(* Expert review of machine-generated findings (doc-etl-engine front end). *)
(*                                                                         *)
(* Two review surfaces talk to one case store:                             *)
(*   CaseReview          src/app/admin/review/[caseId]/page.tsx            *)
(*                       (editable list view, side-by-side diff, metrics)  *)
(*   EnhancedCaseReview  src/app/admin/review/[caseId]/enhanced/page.tsx   *)
(*                       (search / relevance facets, per-finding comments) *)
(* One surface is mounted at a time (they are two routes of one app).      *)
(*                                                                         *)
(* Values.  A text is a sequence of tokens.  A finding is a record         *)
(*   [kind, text, rel, oid]: kind "str" is a JavaScript string, kind "obj" *)
(* an object (oid is its identity, 0 while it is JSON on the wire or in    *)
(* the store), kind "undef" is what an array read past the end (or a hole) *)
(* yields, kind "null" what JSON makes of a hole.                          *)
(* Arrays are sequences; the code's 0-based index i is element i+1.        *)
(***************************************************************************)
EXTENDS Integers, Sequences, FiniteSets, TLC

(* ------------------------------ bounds --------------------------------- *)
MaxLen == 3        \* longest section the reviewer may build with "+ Add"
MaxOps == 3        \* reviewer operations (edit, comment, filter, save, status) per session
MaxInflight == 2   \* requests in flight at once
MaxIndex == 3      \* largest position a handler is called with directly
MaxPieces == 4
\* source records held by a case, and identifiers resolved in one lookup
MaxRecords == 2
MaxIds == 2     \* pieces a finding text handed to extractRecordIds is made of

(* ------------------------------ values --------------------------------- *)
Sections == {"contradictions", "timeline"}
SectionOrder == <<"contradictions", "timeline">>

Plain(t) == [kind |-> "str", text |-> t, rel |-> "none", oid |-> 0]
Obj(t, r, o) == [kind |-> "obj", text |-> t, rel |-> r, oid |-> o]
Undefined == [kind |-> "undef", text |-> <<>>, rel |-> "none", oid |-> 0]
JsonNull == [kind |-> "null", text |-> <<>>, rel |-> "none", oid |-> 0]

EmptyMap == [s \in {} |-> <<>>]

\* arr[i] of JavaScript: undefined past the end
At(arr, i) == IF i >= 0 /\ i < Len(arr) THEN arr[i + 1] ELSE Undefined

\* map[key] || []
OrEmpty(map, key) == IF key \in DOMAIN map THEN map[key] ELSE <<>>

\* JavaScript truthiness of a finding value (!v is its negation)
Truthy(v) == \/ v.kind = "obj"
             \/ v.kind = "str" /\ v.text # <<>>

\* a === b : strings by content, objects by identity
StrictEq(a, b) ==
  IF a.kind # b.kind THEN FALSE
  ELSE IF a.kind = "str" THEN a.text = b.text
  ELSE IF a.kind = "obj" THEN a.oid = b.oid
  ELSE TRUE

\* structural equality of two findings (same fields, same field values)
StructEq(a, b) == a.kind = b.kind /\ a.text = b.text /\ a.rel = b.rel

(* ------------------------------ arrays --------------------------------- *)
Min(a, b) == IF a < b THEN a ELSE b
Max(a, b) == IF a > b THEN a ELSE b

\* arr[index] = value : an index past the end grows the array, leaving holes
ArraySet(arr, index, value) ==
  [i \in 1..Max(Len(arr), index + 1) |->
     IF i = index + 1 THEN value
     ELSE IF i <= Len(arr) THEN arr[i]
     ELSE Undefined]

\* Variant: arr.splice(index), which drops everything from index on.
Splice1_Truncate(arr, index) ==
  LET start == IF index < 0 THEN Max(Len(arr) + index, 0) ELSE Min(index, Len(arr))
  IN  [i \in 1..start |-> arr[i]]

\* arr.splice(index, 1) : a negative index counts from the end
Splice1(arr, index) ==
  LET start == IF index < 0 THEN Max(Len(arr) + index, 0) ELSE Min(index, Len(arr))
  IN  IF start >= Len(arr) THEN arr
      ELSE [i \in 1..(Len(arr) - 1) |-> IF i <= start THEN arr[i] ELSE arr[i + 1]]

\* arr.indexOf(item) : first position that is === item, -1 when there is none
IndexOf(arr, item) ==
  LET hits == {i \in 0..(Len(arr) - 1) : StrictEq(arr[i + 1], item)}
  IN  IF hits = {} THEN -1 ELSE CHOOSE i \in hits : \A j \in hits : i <= j

(* --------------------------- JSON round trip --------------------------- *)
SectionIndex(s) == CHOOSE k \in 1..Len(SectionOrder) : SectionOrder[k] = s

\* JSON.stringify of one finding: an object loses its identity, a hole is null
StringifyItem(v) ==
  IF v.kind = "obj" THEN [v EXCEPT !.oid = 0]
  ELSE IF v.kind = "undef" THEN JsonNull
  ELSE v

Stringify(map) == [s \in DOMAIN map |-> [i \in 1..Len(map[s]) |-> StringifyItem(map[s][i])]]

\* response.json(): every object of the reply is a fresh object.  origin tells
\* the reply's "analysis" (1) from its "edits" (2).
ParseItem(v, origin, s, i) ==
  IF v.kind = "obj" THEN [v EXCEPT !.oid = origin * 100 + SectionIndex(s) * 10 + i]
  ELSE v

Parse(map, origin) ==
  [s \in DOMAIN map |-> [i \in 1..Len(map[s]) |-> ParseItem(map[s][i], origin, s, i)]]

(* ------------------------------- state --------------------------------- *)
VARIABLES
  store,                  \* the case as the backend holds it
  page,                   \* the mounted surface: "review" or "enhanced"
  case_,                  \* useState<Case | null>
  edits,                  \* CaseReview: useState<any>({}), the working copy
  comments,               \* EnhancedCaseReview: the annotation store
  loading, saving, error, \* request flags and the error text
  searchTerm,             \* EnhancedCaseReview: search box
  selectedLegalRelevance, \* EnhancedCaseReview: active relevance facets
  inflight,               \* requests sent and not yet answered
  nOps,                   \* edit operations performed so far (bounded by MaxOps)
  lastOp,                 \* the handler that ran last, with its arguments
  cite,                   \* one call of extractRecordIds: its text and its result
  lookup,                 \* one source-record lookup: its inputs and what is shown
  caseId,                 \* the case the route names (params.caseId)
  showOnlyLowConfidence   \* CaseReview: the low-confidence filter is on

vars == <<store, page, case_, edits, comments, loading, saving, error,
          searchTerm, selectedLegalRelevance, inflight, nOps, lastOp, cite,
          lookup, caseId, showOnlyLowConfidence>>

NoCase == [set |-> FALSE, analysis |-> EmptyMap, hasEdits |-> FALSE,
           edits |-> EmptyMap, comments |-> EmptyMap, status |-> ""]

\* lastOp: the handler, its arguments, and (for saveComment) the comment the
\* position held before
NoOp == [op |-> "none", section |-> "", index |-> 0, text |-> <<>>, prev |-> <<>>]
Op(o, s, i, t) == [op |-> o, section |-> s, index |-> i, text |-> t, prev |-> <<>>]

RelevanceLevels == {"high", "medium", "low"}

\* the cases the store holds
CaseIds == {"A", "B"}

\* lookup: no source-record lookup made
NoLookup == [fn |-> "", records |-> <<>>, ids |-> <<>>, done |-> FALSE,
             shown |-> <<>>, alerted |-> FALSE]

\* cite: no call of extractRecordIds made
NoCite == [text |-> <<>>, done |-> FALSE, cleanText |-> <<>>, recordIds |-> <<>>]

(* ------------------- CaseReview: reconciliation ------------------------ *)
\* Object.keys(map) in insertion order, restricted to array-valued sections
Keys(map) == SelectSeq(SectionOrder, LAMBDA s : s \in DOMAIN map)

\* Variant: identity by value.  An original finding that is still somewhere
\* in the edited section is unchanged, one that is nowhere is removed.
getItemChangeStatus_ByValue(section, index) ==
  IF ~case_.set \/ ~case_.hasEdits THEN "unchanged"
  ELSE LET aiItems == OrEmpty(case_.analysis, section)
           editItems == OrEmpty(case_.edits, section)
       IN  IF index >= Len(aiItems) THEN "added"
           ELSE IF IndexOf(editItems, At(aiItems, index)) < 0 THEN "removed"
           ELSE "unchanged"

\* Variant: only a position past the end of the edited section is removed
\* (editItems[index] === undefined in place of !editItems[index]).
getItemChangeStatus_HoleOnly(section, index) ==
  IF ~case_.set \/ ~case_.hasEdits THEN "unchanged"
  ELSE LET aiItems == OrEmpty(case_.analysis, section)
           editItems == OrEmpty(case_.edits, section)
       IN  IF index >= Len(aiItems) THEN "added"
           ELSE IF At(editItems, index).kind = "undef" THEN "removed"
           ELSE IF ~StrictEq(At(aiItems, index), At(editItems, index)) THEN "edited"
           ELSE "unchanged"

\* The four outcomes are told apart in this order.
getItemChangeStatus(section, index) ==
  IF ~case_.set \/ ~case_.hasEdits THEN "unchanged"
  ELSE LET aiItems == OrEmpty(case_.analysis, section)
           editItems == OrEmpty(case_.edits, section)
       IN  IF index >= Len(aiItems) THEN "added"
           ELSE IF ~Truthy(At(editItems, index)) THEN "removed"
           ELSE IF ~StrictEq(At(aiItems, index), At(editItems, index)) THEN "edited"
           ELSE "unchanged"

\* Variant: added += editItems.length (the original length not subtracted).
SectionMetrics_AddedIsLength(section) ==
  LET aiItems == case_.analysis[section]
      editItems == OrEmpty(case_.edits, section)
      idxs == 0..(Len(aiItems) - 1)
      isRemoved(idx) == ~Truthy(At(editItems, idx))
      isUnchanged(idx) == ~isRemoved(idx) /\ StrictEq(At(aiItems, idx), At(editItems, idx))
  IN  [totalAI |-> Len(aiItems),
       removed |-> Cardinality({idx \in idxs : isRemoved(idx)}),
       unchanged |-> Cardinality({idx \in idxs : isUnchanged(idx)}),
       edited |-> Cardinality({idx \in idxs : ~isRemoved(idx) /\ ~isUnchanged(idx)}),
       added |-> IF Len(editItems) > Len(aiItems) THEN Len(editItems) ELSE 0]

\* What one pass of the forEach body of calculateEditMetrics adds to the
\* counters for one section of case_.analysis.
SectionMetrics(section) ==
  LET aiItems == case_.analysis[section]
      editItems == OrEmpty(case_.edits, section)
      idxs == 0..(Len(aiItems) - 1)
      isRemoved(idx) == ~Truthy(At(editItems, idx))
      isUnchanged(idx) == ~isRemoved(idx) /\ StrictEq(At(aiItems, idx), At(editItems, idx))
  IN  [totalAI |-> Len(aiItems),
       removed |-> Cardinality({idx \in idxs : isRemoved(idx)}),
       unchanged |-> Cardinality({idx \in idxs : isUnchanged(idx)}),
       edited |-> Cardinality({idx \in idxs : ~isRemoved(idx) /\ ~isUnchanged(idx)}),
       added |-> IF Len(editItems) > Len(aiItems) THEN Len(editItems) - Len(aiItems) ELSE 0]

\* the counters after the forEach: per[section] is what the section added
RECURSIVE SumMetrics(_, _, _)
SumMetrics(per, keys, field) ==
  IF keys = <<>> THEN 0
  ELSE per[Head(keys)][field] + SumMetrics(per, Tail(keys), field)

\* Variant: the percentage cut down to a whole number.
RoundPercent_Floor(num, den) == (100 * num) \div den

\* Math.round(x * 100) for x = num / den >= 0
RoundPercent(num, den) == (200 * num + den) \div (2 * den)

\* null (valid = FALSE) when the case has no analysis or no stored edits
calculateEditMetrics ==
  IF ~case_.set \/ ~case_.hasEdits
  THEN [valid |-> FALSE, totalAI |-> 0, unchanged |-> 0, edited |-> 0,
        removed |-> 0, added |-> 0, enhancementRate |-> 0]
  ELSE LET keys == Keys(case_.analysis)
           per == [section \in DOMAIN case_.analysis |-> SectionMetrics(section)]
           totalAI == SumMetrics(per, keys, "totalAI")
           unchanged == SumMetrics(per, keys, "unchanged")
           edited == SumMetrics(per, keys, "edited")
           removed == SumMetrics(per, keys, "removed")
           added == SumMetrics(per, keys, "added")
       IN  [valid |-> TRUE, totalAI |-> totalAI, unchanged |-> unchanged,
            edited |-> edited, removed |-> removed, added |-> added,
            enhancementRate |-> IF totalAI > 0
                                THEN RoundPercent(edited + removed + added, totalAI)
                                ELSE 0]

\* Side-by-side view: the rows of one section and the status shown on each
sideBySideRows(section) ==
  LET aiItems == OrEmpty(case_.analysis, section)
      expertItems == OrEmpty(edits, section)
      maxLength == Max(Len(aiItems), Len(expertItems))
  IN  [idx \in 0..(maxLength - 1) |-> getItemChangeStatus(section, idx)]

(* ----------------- EnhancedCaseReview: comments, filter ---------------- *)
IsSpace(c) == c = " "

RECURSIVE TrimStart(_)
TrimStart(t) == IF t # <<>> /\ IsSpace(Head(t)) THEN TrimStart(Tail(t)) ELSE t

RECURSIVE TrimEnd(_)
TrimEnd(t) ==
  IF t # <<>> /\ IsSpace(t[Len(t)]) THEN TrimEnd(SubSeq(t, 1, Len(t) - 1)) ELSE t

Trim(t) == TrimEnd(TrimStart(t))

HasKey(cm, section, index) == section \in DOMAIN cm /\ index \in DOMAIN cm[section]

getComment(section, index) ==
  IF HasKey(comments, section, index) THEN comments[section][index] ELSE <<>>

hasComment(section, index) == getComment(section, index) # <<>>

\* Variant: the comment is stored whatever its text (no comment.trim() test).
NewComments_KeepEmpty(cm, section, index, comment) ==
  LET inner == IF section \in DOMAIN cm THEN cm[section] ELSE [i \in {} |-> <<>>]
  IN  [s \in DOMAIN cm \cup {section} |->
         IF s = section
         THEN [i \in DOMAIN inner \cup {index} |-> IF i = index THEN comment ELSE inner[i]]
         ELSE cm[s]]

\* Variant: the section key stays when its last comment is cleared (no
\* delete newComments[section]).
NewComments_KeepSection(cm, section, index, comment) ==
  LET inner == IF section \in DOMAIN cm THEN cm[section] ELSE [i \in {} |-> <<>>]
  IN  [s \in DOMAIN cm \cup {section} |->
         IF s # section THEN cm[s]
         ELSE IF Trim(comment) # <<>>
         THEN [i \in DOMAIN inner \cup {index} |-> IF i = index THEN comment ELSE inner[i]]
         ELSE [i \in DOMAIN inner \ {index} |-> inner[i]]]

\* the body of saveComment up to setComments(newComments)
NewComments(cm, section, index, comment) ==
  LET inner == IF section \in DOMAIN cm THEN cm[section] ELSE [i \in {} |-> <<>>]
  IN  IF Trim(comment) # <<>>
      THEN [s \in DOMAIN cm \cup {section} |->
              IF s = section
              THEN [i \in DOMAIN inner \cup {index} |->
                      IF i = index THEN comment ELSE inner[i]]
              ELSE cm[s]]
      ELSE LET left == [i \in DOMAIN inner \ {index} |-> inner[i]]
           IN  IF DOMAIN left = {}
               THEN [s \in DOMAIN cm \ {section} |-> cm[s]]
               ELSE [s \in DOMAIN cm \cup {section} |->
                       IF s = section THEN left ELSE cm[s]]

isStructuredArray(arr) == Len(arr) > 0 /\ arr[1].kind = "obj"

\* s.toLowerCase(), token by token
LowerToken(c) == IF c = "X" THEN "x" ELSE IF c = "Y" THEN "y" ELSE IF c = "D" THEN "d" ELSE c
ToLower(t) == [i \in 1..Len(t) |-> LowerToken(t[i])]

\* haystack.includes(needle)
Includes(hay, needle) ==
  \E k \in 0..(Len(hay) - Len(needle)) : SubSeq(hay, k + 1, k + Len(needle)) = needle

\* typeof item === 'string' ? item : JSON.stringify(item)
SearchableText(item) ==
  IF item.kind = "str" THEN item.text
  ELSE <<"{", "description", ":">> \o item.text \o
       (IF item.rel = "none" THEN <<>> ELSE <<",", "legal_relevance", ":", item.rel>>) \o
       <<"}">>

\* the positions of `value` that pass both filters of filteredSections
Visible(value) ==
  LET structured == isStructuredArray(value)
      passRelevance(item) ==
        ~structured \/ item.rel = "none" \/ item.rel \in selectedLegalRelevance
      passSearch(item) ==
        searchTerm = <<>> \/ Includes(ToLower(SearchableText(item)), ToLower(searchTerm))
  IN  {i \in 1..Len(value) : passRelevance(value[i]) /\ passSearch(value[i])}

RECURSIVE Ascending(_)
Ascending(S) ==
  IF S = {} THEN <<>>
  ELSE LET m == CHOOSE x \in S : \A y \in S : x <= y
       IN  <<m>> \o Ascending(S \ {m})

\* Variant: every section is a key, shown or not (no items.length > 0 test).
filteredSections_KeepEmpty ==
  IF ~case_.set THEN EmptyMap
  ELSE LET shown(s) == Ascending(Visible(case_.analysis[s]))
       IN  [s \in DOMAIN case_.analysis |->
              [r \in 1..Len(shown(s)) |-> case_.analysis[s][shown(s)[r]]]]

\* filteredSections : section -> the items shown, in order; a section with no
\* visible item is no key of the result
filteredSections ==
  IF ~case_.set THEN EmptyMap
  ELSE LET shown(s) == Ascending(Visible(case_.analysis[s]))
       IN  [s \in {k \in DOMAIN case_.analysis : Visible(case_.analysis[k]) # {}} |->
              [r \in 1..Len(shown(s)) |-> case_.analysis[s][shown(s)[r]]]]

\* for row idx (0-based) of a shown section, the 0-based position of that
\* item in the unfiltered array
UnfilteredPosition(section, idx) == Ascending(Visible(case_.analysis[section]))[idx + 1] - 1

(* ----------------------------- the backend ----------------------------- *)
\* The case store answers three requests; it is outside this repository and
\* is modelled from its interface: a load returns the stored case, a save
\* overwrites "edits" (and "comments" when the request carries them).
AnalysisPlain ==
  [contradictions |-> <<Plain(<<"x">>), Plain(<<"y">>)>>,
   timeline |-> <<Plain(<<"x">>)>>]

AnalysisStructured ==
  [contradictions |-> <<Obj(<<"d">>, "low", 0), Obj(<<"d">>, "high", 0)>>,
   timeline |-> <<Plain(<<"x">>)>>]

StoredComments ==
  {EmptyMap, [contradictions |-> [i \in {0, 1} |-> IF i = 0 THEN <<"a">> ELSE <<"b">>]]}

\* edits an earlier CaseReview session saved for AnalysisPlain: row 0 of
\* contradictions retyped
EditedPlain ==
  [contradictions |-> <<Plain(<<"new issue">>), Plain(<<"y">>)>>,
   timeline |-> <<Plain(<<"x">>)>>]

\* the edits the store may hold for an analysis: none, a copy of it (saved
\* unedited), or an edited copy
StoredEdits(a) ==
  {[has |-> FALSE, edits |-> EmptyMap], [has |-> TRUE, edits |-> a]} \cup
  (IF a = AnalysisPlain THEN {[has |-> TRUE, edits |-> EditedPlain]} ELSE {})

\* comments reach the store only with a save, and every save stores edits
\* (the enhanced surface, which saves comments, sends the edits it loaded)
StoreInits ==
  {st \in UNION {{[analysis |-> a, hasEdits |-> e.has, edits |-> e.edits,
                   comments |-> c, status |-> "pending_review"] :
                     e \in StoredEdits(a), c \in StoredComments} :
                  a \in {AnalysisPlain, AnalysisStructured}} :
     st.comments # EmptyMap => (st.hasEdits /\ st.edits = st.analysis)}

\* a request on the wire; n tells apart two requests with the same content
Request(type, e, hc, c) ==
  [type |-> type, caseId |-> caseId, edits |-> e, hasComments |-> hc, comments |-> c,
   status |-> "", n |-> 0]
LoadRequest == Request("load", EmptyMap, FALSE, EmptyMap)
StatusRequest(newStatus) ==
  [Request("status", EmptyMap, FALSE, EmptyMap) EXCEPT !.status = newStatus]

StoreAfterSave(req) ==
  [store EXCEPT !.hasEdits = TRUE,
                !.edits = req.edits,
                !.comments = IF req.hasComments THEN req.comments ELSE @]

StoreAfterStatus(req) == [store EXCEPT !.status = req.status]

(* ------------------------------- Init ---------------------------------- *)
\* A surface has just mounted: useState initial values, and the effect on
\* [caseId] has called fetchCase.  The surface stays mounted for the session;
\* the store's initial value stands for what earlier sessions left.
Init ==
  /\ store \in StoreInits
  /\ page \in {"review", "enhanced"}
  /\ caseId = "A"
  /\ showOnlyLowConfidence = FALSE
  /\ case_ = NoCase
  /\ edits = EmptyMap
  /\ comments = EmptyMap
  /\ loading = TRUE
  /\ saving = FALSE
  /\ error = ""
  /\ searchTerm = <<>>
  /\ selectedLegalRelevance = RelevanceLevels
  /\ inflight = {LoadRequest}
  /\ nOps = 0
  /\ lastOp = NoOp
  /\ cite = NoCite
  /\ lookup = NoLookup

(* ------------------------------ requests ------------------------------- *)
\* fetch(...): one more request in flight
Sent(pending, req) ==
  pending \cup
    {[req EXCEPT !.n = CHOOSE k \in 0..Cardinality(pending) :
                          [req EXCEPT !.n = k] \notin pending]}

Send(req) == Sent(inflight, req)

Pending(type) == {req \in inflight : req.type = type}

(* ------------------------------ fetchCase ------------------------------ *)
\* data.case of a successful reply
LoadedCase ==
  [set |-> TRUE,
   analysis |-> Parse(store.analysis, 1),
   hasEdits |-> store.hasEdits,
   edits |-> Parse(store.edits, 2),
   comments |-> store.comments,
   status |-> store.status]

\* data.case.edits || data.case.analysis : the same arrays, not a copy
InitialEdits(c) == IF c.hasEdits THEN c.edits ELSE c.analysis

\* the case the store holds under the other identifier
AnalysisOther == [contradictions |-> <<Plain(<<"z">>)>>, timeline |-> <<>>]

OtherCase ==
  [set |-> TRUE, analysis |-> Parse(AnalysisOther, 1), hasEdits |-> FALSE,
   edits |-> EmptyMap, comments |-> EmptyMap, status |-> "pending_review"]

\* data.case of the reply to GET /admin/case/${id}
ReplyFor(id) == IF id = "A" THEN LoadedCase ELSE OtherCase

\* a reply is applied when it arrives, whichever request it answers
FetchCaseOk ==
  /\ \E req \in Pending("load") :
       /\ inflight' = inflight \ {req}
       /\ case_' = ReplyFor(req.caseId)
       /\ edits' = IF page = "review" THEN InitialEdits(ReplyFor(req.caseId)) ELSE edits
       /\ comments' = IF page = "enhanced" THEN ReplyFor(req.caseId).comments ELSE comments
  /\ loading' = FALSE
  /\ lastOp' = Op("load", "", 0, <<>>)
  /\ UNCHANGED <<store, page, caseId, showOnlyLowConfidence, cite, lookup, saving, error, searchTerm, selectedLegalRelevance, nOps>>

\* Variant: the failure branch also drops the case (setCase(null)).
FetchCaseFail_UnsetsCase ==
  /\ \E req \in Pending("load") : inflight' = inflight \ {req}
  /\ error' \in {"Failed to load case", "Failed to connect to backend"}
  /\ case_' = NoCase
  /\ loading' = FALSE
  /\ lastOp' = Op("loadFailed", "", 0, <<>>)
  /\ UNCHANGED <<store, page, caseId, showOnlyLowConfidence, cite, lookup, edits, comments, saving,
                 searchTerm, selectedLegalRelevance, nOps>>

FetchCaseFail ==
  /\ \E req \in Pending("load") : inflight' = inflight \ {req}
  /\ error' \in {"Failed to load case", "Failed to connect to backend"}
  /\ loading' = FALSE
  /\ lastOp' = Op("loadFailed", "", 0, <<>>)
  /\ UNCHANGED <<store, page, caseId, showOnlyLowConfidence, cite, lookup, case_, edits, comments, saving,
                 searchTerm, selectedLegalRelevance, nOps>>

\* neither the loading screen nor the error screen is shown
Ready == ~loading /\ error = "" /\ case_.set

(* --------------------- CaseReview: edit handlers ----------------------- *)
EditTexts == {<<>>, <<"new issue">>}

\* newEdits = { ...edits } copies the map, not its arrays: the array that a
\* handler changes in place is the one case_ holds too (case_.edits[section]
\* when the case came with stored edits, case_.analysis[section] when not).
CaseAfterWrite(section, arr) ==
  IF case_.hasEdits
  THEN [case_ EXCEPT !.edits = [s \in DOMAIN @ |-> IF s = section THEN arr ELSE @[s]]]
  ELSE [case_ EXCEPT !.analysis = [s \in DOMAIN @ |-> IF s = section THEN arr ELSE @[s]]]

EditsAfterWrite(section, arr) ==
  [s \in DOMAIN edits \cup {section} |-> IF s = section THEN arr ELSE edits[s]]

EditFrame == UNCHANGED <<store, page, caseId, showOnlyLowConfidence, cite, lookup, comments, loading, saving, error,
                         searchTerm, selectedLegalRelevance, inflight>>

updateListItem(section, index, value) ==
  /\ edits' = EditsAfterWrite(section, ArraySet(edits[section], index, Plain(value)))
  /\ case_' = CaseAfterWrite(section, ArraySet(edits[section], index, Plain(value)))
  /\ lastOp' = Op("update", section, index, value)
  /\ EditFrame

removeListItem(section, index) ==
  /\ edits' = EditsAfterWrite(section, Splice1(edits[section], index))
  /\ case_' = CaseAfterWrite(section, Splice1(edits[section], index))
  /\ lastOp' = Op("remove", section, index, <<>>)
  /\ EditFrame

\* Variant: newEdits[section].unshift('')
addListItem_Unshift(section) ==
  /\ edits' = EditsAfterWrite(section, <<Plain(<<>>)>> \o OrEmpty(edits, section))
  /\ case_' = CaseAfterWrite(section, <<Plain(<<>>)>> \o OrEmpty(edits, section))
  /\ lastOp' = Op("add", section, Len(OrEmpty(edits, section)), <<>>)
  /\ EditFrame

\* the reviewer reaches addListItem only through the "+ Add" button of a
\* section that edits already has, so the !newEdits[section] branch is idle
addListItem(section) ==
  /\ edits' = EditsAfterWrite(section, Append(OrEmpty(edits, section), Plain(<<>>)))
  /\ case_' = CaseAfterWrite(section, Append(OrEmpty(edits, section), Plain(<<>>)))
  /\ lastOp' = Op("add", section, Len(OrEmpty(edits, section)), <<>>)
  /\ EditFrame

\* /\[Confidence:\s*(high|medium|low)\]/i : the level of the first tag of a
\* text, in lower case; '' when the text has none
TagLevel(tok) ==
  IF tok \in {"[Confidence: low]", "[Confidence: LOW]"} THEN "low"
  ELSE IF tok = "[Confidence: high]" THEN "high"
  ELSE ""

extractConfidenceFromText(item) ==
  LET tags == {i \in 1..Len(item.text) : TagLevel(item.text[i]) # ""}
  IN  IF item.kind # "str" \/ tags = {} THEN ""
      ELSE TagLevel(item.text[CHOOSE i \in tags : \A j \in tags : i <= j])

filterItemsByConfidence(items) ==
  IF ~showOnlyLowConfidence THEN items
  ELSE SelectSeq(items, LAMBDA item : extractConfidenceFromText(item) = "low")

\* Expert view: the rows of a section
DisplayItems(section) ==
  IF showOnlyLowConfidence THEN filterItemsByConfidence(edits[section]) ELSE edits[section]

\* one row per displayed item: the handlers get
\* actualIndex = dataSource[section].indexOf(item)
ActualIndex(section, k) == IndexOf(edits[section], DisplayItems(section)[k + 1])

\* the "Show Low Confidence Only" button
ToggleLowConfidence ==
  /\ page = "review" /\ Ready
  /\ showOnlyLowConfidence' = ~showOnlyLowConfidence
  /\ UNCHANGED <<store, page, caseId, case_, edits, comments, loading, saving, error,
                 searchTerm, selectedLegalRelevance, inflight, nOps, lastOp, cite, lookup>>

CanEdit == page = "review" /\ Ready /\ nOps < MaxOps

EditRow ==
  /\ CanEdit
  /\ \E section \in DOMAIN edits : \E k \in 0..(Len(DisplayItems(section)) - 1) :
       \E value \in EditTexts :
         updateListItem(section, ActualIndex(section, k), value)
  /\ nOps' = nOps + 1

RemoveRow ==
  /\ CanEdit
  /\ \E section \in DOMAIN edits : \E k \in 0..(Len(DisplayItems(section)) - 1) :
       removeListItem(section, ActualIndex(section, k))
  /\ nOps' = nOps + 1

AddRow ==
  /\ CanEdit
  /\ \E section \in DOMAIN edits :
       /\ Len(edits[section]) < MaxLen
       /\ addListItem(section)
  /\ nOps' = nOps + 1

(* ------------------------------ saving --------------------------------- *)
\* Variant: the Save Edits button is not disabled while saving.
SaveEdits_NotDisabled ==
  /\ page = "review" /\ Ready /\ nOps < MaxOps
  /\ nOps' = nOps + 1
  /\ Cardinality(inflight) < MaxInflight
  /\ saving' = TRUE
  /\ inflight' = Send(Request("save", Stringify(edits), FALSE, EmptyMap))
  /\ lastOp' = Op("save", "", 0, <<>>)
  /\ UNCHANGED <<store, page, caseId, showOnlyLowConfidence, cite, lookup, case_, edits, comments, loading, error,
                 searchTerm, selectedLegalRelevance>>

\* CaseReview.saveEdits: the button is disabled while saving
SaveEdits ==
  /\ page = "review" /\ Ready /\ ~saving /\ nOps < MaxOps
  /\ nOps' = nOps + 1
  /\ Cardinality(inflight) < MaxInflight
  /\ saving' = TRUE
  /\ inflight' = Send(Request("save", Stringify(edits), FALSE, EmptyMap))
  /\ lastOp' = Op("save", "", 0, <<>>)
  /\ UNCHANGED <<store, page, caseId, showOnlyLowConfidence, cite, lookup, case_, edits, comments, loading, error,
                 searchTerm, selectedLegalRelevance>>

\* EnhancedCaseReview.saveComments: edits: case_?.edits || case_?.analysis
SaveComments ==
  /\ page = "enhanced" /\ Ready /\ ~saving /\ nOps < MaxOps
  /\ nOps' = nOps + 1
  /\ Cardinality(inflight) < MaxInflight
  /\ saving' = TRUE
  /\ inflight' = Send(Request("save", Stringify(InitialEdits(case_)), TRUE, comments))
  /\ lastOp' = Op("save", "", 0, <<>>)
  /\ UNCHANGED <<store, page, caseId, showOnlyLowConfidence, cite, lookup, case_, edits, comments, loading, error,
                 searchTerm, selectedLegalRelevance>>

SaveOk ==
  /\ \E req \in inflight :
       /\ req.type = "save"
       /\ inflight' = inflight \ {req}
       /\ store' = StoreAfterSave(req)
  /\ saving' = FALSE
  /\ lastOp' = Op(IF lastOp.op = "save" THEN "saved" ELSE "savedLate", "", 0, <<>>)
  /\ UNCHANGED <<page, caseId, showOnlyLowConfidence, cite, lookup, case_, edits, comments, loading, error,
                 searchTerm, selectedLegalRelevance, nOps>>

SaveFail ==
  /\ \E req \in inflight :
       /\ req.type = "save"
       /\ inflight' = inflight \ {req}
  /\ error' = IF page = "review" THEN "Failed to save edits" ELSE "Failed to save comments"
  /\ saving' = FALSE
  /\ lastOp' = Op("saveFailed", "", 0, <<>>)
  /\ UNCHANGED <<store, page, caseId, showOnlyLowConfidence, cite, lookup, case_, edits, comments, loading,
                 searchTerm, selectedLegalRelevance, nOps>>

(* ----------------------- CaseReview: updateStatus ---------------------- *)
\* the status button the surface shows for the status of the loaded case
NextStatus(status) ==
  IF status = "pending_review" THEN "approved"
  ELSE IF status = "approved" THEN "delivered"
  ELSE ""

UpdateStatus ==
  /\ page = "review" /\ Ready /\ nOps < MaxOps
  /\ NextStatus(case_.status) # ""
  /\ nOps' = nOps + 1
  /\ Cardinality(inflight) < MaxInflight
  /\ inflight' = Send(StatusRequest(NextStatus(case_.status)))
  /\ lastOp' = Op("status", "", 0, <<>>)
  /\ UNCHANGED <<store, page, caseId, showOnlyLowConfidence, cite, lookup, case_, edits, comments, loading, saving, error,
                 searchTerm, selectedLegalRelevance>>

\* success: fetchCase() is called again; loading is not set again
StatusOk ==
  /\ \E req \in Pending("status") :
       /\ store' = StoreAfterStatus(req)
       /\ inflight' = Sent(inflight \ {req}, LoadRequest)
  /\ lastOp' = Op("statusUpdated", "", 0, <<>>)
  /\ UNCHANGED <<page, caseId, showOnlyLowConfidence, cite, lookup, case_, edits, comments, loading, saving, error,
                 searchTerm, selectedLegalRelevance, nOps>>

StatusFail ==
  /\ \E req \in Pending("status") : inflight' = inflight \ {req}
  /\ error' = "Failed to update status"
  /\ lastOp' = Op("statusFailed", "", 0, <<>>)
  /\ UNCHANGED <<store, page, caseId, showOnlyLowConfidence, cite, lookup, case_, edits, comments, loading, saving,
                 searchTerm, selectedLegalRelevance, nOps>>

(* ------------- EnhancedCaseReview: comment and filter handlers --------- *)
CommentTexts == {<<>>, <<" ">>, <<"a">>, <<"b">>}
SearchTerms == {<<>>, <<"Y">>, <<"description">>}

EnhancedFrame == UNCHANGED <<store, page, caseId, showOnlyLowConfidence, cite, lookup, case_, edits, loading, saving, error,
                             inflight>>

saveComment(section, index, comment) ==
  /\ comments' = NewComments(comments, section, index, comment)
  /\ lastOp' = [Op("comment", section, index, comment) EXCEPT
                  !.prev = getComment(section, index)]
  /\ UNCHANGED <<searchTerm, selectedLegalRelevance>>
  /\ EnhancedFrame

\* the comment button of row idx of a shown section: renderSection maps the
\* filtered items with their index in the filtered list
CanAnnotate == page = "enhanced" /\ Ready /\ nOps < MaxOps

CommentRow ==
  /\ CanAnnotate
  /\ nOps' = nOps + 1
  /\ \E section \in DOMAIN filteredSections :
       \E idx \in 0..(Len(filteredSections[section]) - 1) :
         \E comment \in CommentTexts : saveComment(section, idx, comment)

SetSearchTerm ==
  /\ CanAnnotate
  /\ nOps' = nOps + 1
  /\ \E q \in SearchTerms \ {searchTerm} : searchTerm' = q
  /\ lastOp' = Op("search", "", 0, <<>>)
  /\ UNCHANGED <<comments, selectedLegalRelevance>>
  /\ EnhancedFrame

toggleLegalRelevance(level) ==
  /\ selectedLegalRelevance' = IF level \in selectedLegalRelevance
                               THEN selectedLegalRelevance \ {level}
                               ELSE selectedLegalRelevance \cup {level}
  /\ lastOp' = Op("facet", "", 0, <<>>)
  /\ UNCHANGED <<comments, searchTerm>>
  /\ EnhancedFrame

ToggleFacet ==
  /\ CanAnnotate
  /\ nOps' = nOps + 1
  /\ \E level \in RelevanceLevels : toggleLegalRelevance(level)

(* --------------- EnhancedCaseReview: extractRecordIds ------------------ *)
\* A finding text is a sequence of tokens; a token is one character ("[",
\* "]", "-", " ", ".") or a run of characters of one class: "w" a word in
\* lower case, "A" one upper-case letter, "AB" two, "2024" four digits,
\* "001" / "002" three.
UpperLen(c) == IF c = "AB" THEN 2 ELSE IF c = "A" THEN 1 ELSE 0
DigitLen(c) == IF c = "2024" THEN 4 ELSE IF c \in {"001", "002"} THEN 3 ELSE 0
CharLen(c, class) == IF class = "upper" THEN UpperLen(c) ELSE DigitLen(c)

TokAt(text, i) == IF i \in 1..Len(text) THEN text[i] ELSE ""

\* the longest run of tokens of one class that starts at k: its tokens, its
\* characters
RECURSIVE RunTokens(_, _, _)
RunTokens(text, k, class) ==
  IF k > Len(text) \/ CharLen(text[k], class) = 0 THEN 0
  ELSE 1 + RunTokens(text, k + 1, class)

RECURSIVE RunChars(_, _, _)
RunChars(text, k, class) ==
  IF k > Len(text) \/ CharLen(text[k], class) = 0 THEN 0
  ELSE CharLen(text[k], class) + RunChars(text, k + 1, class)

\* /\[([A-Z]{2,}-\d{4}-\d+)\]/ tried at token k: the position after the
\* match, 0 when there is no match at k
MatchEnd(text, k) ==
  LET b == k + 1 + RunTokens(text, k + 1, "upper")
      d == b + 1 + RunTokens(text, b + 1, "digit")
      f == d + 1 + RunTokens(text, d + 1, "digit")
  IN  IF /\ TokAt(text, k) = "["
         /\ RunChars(text, k + 1, "upper") >= 2
         /\ TokAt(text, b) = "-"
         /\ RunChars(text, b + 1, "digit") = 4
         /\ TokAt(text, d) = "-"
         /\ RunChars(text, d + 1, "digit") >= 1
         /\ TokAt(text, f) = "]"
      THEN f + 1
      ELSE 0

\* the first position >= lastIndex where the pattern matches, 0 when none
NextMatch(text, lastIndex) ==
  LET hits == {k \in lastIndex..Len(text) : MatchEnd(text, k) > 0}
  IN  IF hits = {} THEN 0 ELSE CHOOSE k \in hits : \A j \in hits : k <= j

\* while ((match = recordIdPattern.exec(text)) !== null) recordIds.push(match[1])
RECURSIVE ExecLoop(_, _)
ExecLoop(text, lastIndex) ==
  LET k == NextMatch(text, lastIndex)
  IN  IF k = 0 THEN <<>>
      ELSE <<SubSeq(text, k + 1, MatchEnd(text, k) - 2)>> \o
           ExecLoop(text, MatchEnd(text, k))

\* text.replace(recordIdPattern, '')
RECURSIVE ReplaceAll(_, _)
ReplaceAll(text, from) ==
  LET k == NextMatch(text, from)
  IN  IF k = 0 THEN SubSeq(text, from, Len(text))
      ELSE SubSeq(text, from, k - 1) \o ReplaceAll(text, MatchEnd(text, k))

\* Variant: the cleaned text is not trimmed.
extractRecordIds_NoTrim(text) ==
  [cleanText |-> ReplaceAll(text, 1), recordIds |-> ExecLoop(text, 1)]

\* Variant: the identifiers keep their brackets (match[0] pushed).
extractRecordIds_WholeMatch(text) ==
  [cleanText |-> Trim(ReplaceAll(text, 1)),
   recordIds |-> [r \in 1..Len(ExecLoop(text, 1)) |->
                    <<"[">> \o ExecLoop(text, 1)[r] \o <<"]">>]]

extractRecordIds(text) ==
  [cleanText |-> Trim(ReplaceAll(text, 1)), recordIds |-> ExecLoop(text, 1)]

(* ------------------------------- Spec ---------------------------------- *)
Next ==
  \/ FetchCaseOk
  \/ FetchCaseFail
  \/ EditRow
  \/ RemoveRow
  \/ AddRow
  \/ SaveEdits
  \/ SaveComments
  \/ SaveOk
  \/ SaveFail
  \/ UpdateStatus
  \/ StatusOk
  \/ StatusFail
  \/ CommentRow
  \/ SetSearchTerm
  \/ ToggleFacet

Spec == Init /\ [][Next]_vars

(* ---------------------- handlers called directly ----------------------- *)
\* The Finding Model operations as an interface: any caller, any position.
\* The session starts with the case loaded on the CaseReview surface.
InitCall ==
  /\ store \in StoreInits
  /\ page = "review"
  /\ caseId = "A"
  /\ showOnlyLowConfidence = FALSE
  /\ case_ = LoadedCase
  /\ edits = InitialEdits(LoadedCase)
  /\ comments = EmptyMap
  /\ loading = FALSE
  /\ saving = FALSE
  /\ error = ""
  /\ searchTerm = <<>>
  /\ selectedLegalRelevance = RelevanceLevels
  /\ inflight = {}
  /\ nOps = 0
  /\ lastOp = NoOp
  /\ cite = NoCite
  /\ lookup = NoLookup

CallUpdate ==
  /\ nOps < MaxOps
  /\ \E section \in DOMAIN edits : \E index \in 0..MaxIndex : \E value \in EditTexts :
       updateListItem(section, index, value)
  /\ nOps' = nOps + 1

CallRemove ==
  /\ nOps < MaxOps
  /\ \E section \in DOMAIN edits : \E index \in 0..MaxIndex :
       removeListItem(section, index)
  /\ nOps' = nOps + 1

CallAdd ==
  /\ nOps < MaxOps
  /\ \E section \in DOMAIN edits :
       /\ Len(edits[section]) < MaxLen
       /\ addListItem(section)
  /\ nOps' = nOps + 1

NextCall == CallUpdate \/ CallRemove \/ CallAdd

SpecCall == InitCall /\ [][NextCall]_vars

(* ------------- reconciliation of stored cases of other shapes ------------ *)
\* Cases with one section only: three original findings, saved as
\* [x, Y, z, w] by an earlier session, saved unchanged, or never saved; and a
\* case whose only section is empty.
AnalysisThree ==
  [contradictions |-> <<Plain(<<"x">>), Plain(<<"y">>), Plain(<<"z">>)>>]

EditedThree ==
  [contradictions |-> <<Plain(<<"x">>), Plain(<<"Y">>), Plain(<<"z">>), Plain(<<"w">>)>>]

AnalysisNone == [contradictions |-> <<>>]

\* a working copy saved after addListItem("timeline") and a typed finding,
\* for a case whose analysis has no timeline
EditedExtraSection ==
  [contradictions |-> <<Plain(<<"x">>), Plain(<<"y">>), Plain(<<"z">>)>>,
   timeline |-> <<Plain(<<"w">>)>>]

ReconStores ==
  {[analysis |-> AnalysisThree, hasEdits |-> TRUE, edits |-> EditedThree,
    comments |-> EmptyMap, status |-> "pending_review"],
   [analysis |-> AnalysisThree, hasEdits |-> TRUE, edits |-> AnalysisThree,
    comments |-> EmptyMap, status |-> "pending_review"],
   [analysis |-> AnalysisThree, hasEdits |-> FALSE, edits |-> EmptyMap,
    comments |-> EmptyMap, status |-> "pending_review"],
   [analysis |-> AnalysisNone, hasEdits |-> TRUE, edits |-> AnalysisNone,
    comments |-> EmptyMap, status |-> "pending_review"],
   [analysis |-> AnalysisThree, hasEdits |-> TRUE, edits |-> EditedExtraSection,
    comments |-> EmptyMap, status |-> "pending_review"]}

InitRecon ==
  /\ store \in ReconStores
  /\ page = "review"
  /\ caseId = "A"
  /\ showOnlyLowConfidence = FALSE
  /\ case_ = LoadedCase
  /\ edits = InitialEdits(LoadedCase)
  /\ comments = EmptyMap
  /\ loading = FALSE
  /\ saving = FALSE
  /\ error = ""
  /\ searchTerm = <<>>
  /\ selectedLegalRelevance = RelevanceLevels
  /\ inflight = {}
  /\ nOps = 0
  /\ lastOp = NoOp
  /\ cite = NoCite
  /\ lookup = NoLookup

\* addListItem called for any section, one that edits does not have included
\* (if (!newEdits[section]) newEdits[section] = [])
CallAddSection ==
  /\ nOps < MaxOps
  /\ \E section \in Sections :
       /\ Len(OrEmpty(edits, section)) <= MaxLen
       /\ addListItem(section)
  /\ nOps' = nOps + 1

NextRecon == CallUpdate \/ CallRemove \/ CallAddSection

SpecRecon == InitRecon /\ [][NextRecon]_vars

(* ------------- saveComment called on an empty annotation store ---------- *)
\* empty, whitespace only, plain, and padded with whitespace on both sides
CallCommentTexts == {<<>>, <<" ">>, <<" ", " ">>, <<"a">>, <<" ", "a", " ">>}

InitComments ==
  /\ store = [analysis |-> AnalysisPlain, hasEdits |-> FALSE, edits |-> EmptyMap,
              comments |-> EmptyMap, status |-> "pending_review"]
  /\ page = "enhanced"
  /\ caseId = "A"
  /\ showOnlyLowConfidence = FALSE
  /\ case_ = LoadedCase
  /\ edits = EmptyMap
  /\ comments = EmptyMap
  /\ loading = FALSE
  /\ saving = FALSE
  /\ error = ""
  /\ searchTerm = <<>>
  /\ selectedLegalRelevance = RelevanceLevels
  /\ inflight = {}
  /\ nOps = 0
  /\ lastOp = NoOp
  /\ cite = NoCite
  /\ lookup = NoLookup

CallSaveComment ==
  /\ \E section \in Sections : \E index \in {0, 1} : \E comment \in CallCommentTexts :
       saveComment(section, index, comment)
  /\ UNCHANGED nOps

NextComments == CallSaveComment

SpecComments == InitComments /\ [][NextComments]_vars

(* ---------------- the route changes while a load is pending ------------- *)
InitLoads ==
  /\ store \in StoreInits
  /\ page \in {"review", "enhanced"}
  /\ caseId = "A"
  /\ showOnlyLowConfidence = FALSE
  /\ case_ = NoCase
  /\ edits = EmptyMap
  /\ comments = EmptyMap
  /\ loading = TRUE
  /\ saving = FALSE
  /\ error = ""
  /\ searchTerm = <<>>
  /\ selectedLegalRelevance = RelevanceLevels
  /\ inflight = {LoadRequest}
  /\ nOps = 0
  /\ lastOp = NoOp
  /\ cite = NoCite
  /\ lookup = NoLookup

\* useEffect(() => { fetchCase(); }, [caseId]): the route names another case
\* and the surface, still mounted, loads it; loading is not set again
ChangeCase ==
  /\ nOps < MaxOps
  /\ Cardinality(inflight) < MaxInflight
  /\ \E id \in CaseIds \ {caseId} :
       /\ caseId' = id
       /\ inflight' = Send([LoadRequest EXCEPT !.caseId = id])
  /\ nOps' = nOps + 1
  /\ lastOp' = Op("route", "", 0, <<>>)
  /\ UNCHANGED <<store, page, showOnlyLowConfidence, case_, edits, comments, loading,
                 saving, error, searchTerm, selectedLegalRelevance, cite, lookup>>

NextLoads == ChangeCase \/ FetchCaseOk \/ FetchCaseFail

SpecLoads == InitLoads /\ [][NextLoads]_vars

(* ------------- the rows of the Expert view and their handlers ----------- *)
\* A case in which two findings are equal and carry the low-confidence tag
AnalysisTagged ==
  [contradictions |-> <<Plain(<<"x", "[Confidence: low]">>), Plain(<<"y">>),
                        Plain(<<"x", "[Confidence: low]">>)>>,
   timeline |-> <<Plain(<<"y">>)>>]

RowStores ==
  {[analysis |-> AnalysisTagged, hasEdits |-> e, edits |-> IF e THEN AnalysisTagged ELSE EmptyMap,
    comments |-> EmptyMap, status |-> "pending_review"] : e \in BOOLEAN}

InitRows ==
  /\ store \in RowStores
  /\ page = "review"
  /\ caseId = "A"
  /\ showOnlyLowConfidence = FALSE
  /\ case_ = LoadedCase
  /\ edits = InitialEdits(LoadedCase)
  /\ comments = EmptyMap
  /\ loading = FALSE
  /\ saving = FALSE
  /\ error = ""
  /\ searchTerm = <<>>
  /\ selectedLegalRelevance = RelevanceLevels
  /\ inflight = {}
  /\ nOps = 0
  /\ lastOp = NoOp
  /\ cite = NoCite
  /\ lookup = NoLookup

NextRows == ToggleLowConfidence \/ EditRow \/ RemoveRow \/ AddRow

SpecRows == InitRows /\ [][NextRows]_vars

(* ------------------- extractRecordIds called on a text ------------------ *)
\* the pieces finding texts are made of: two identifiers, two bracketed
\* tokens that are no identifier (one letter; a group of three digits where
\* four are asked), a word, a space, a full stop, a lone bracket
Pieces ==
  { <<"[", "AB", "-", "2024", "-", "001", "]">>,
    <<"[", "AB", "-", "2024", "-", "002", "]">>,
    <<"[", "A", "-", "2024", "-", "001", "]">>,
    <<"[", "AB", "-", "001", "-", "001", "]">>,
    <<"w">>, <<" ">>, <<".">>, <<"[">> }

RECURSIVE Flatten(_)
Flatten(ps) == IF ps = <<>> THEN <<>> ELSE Head(ps) \o Flatten(Tail(ps))

\* "Gap noted [AB-2024-001][AB-2024-002]."
ExampleText ==
  <<"w", " ", "w", " ", "[", "AB", "-", "2024", "-", "001", "]",
    "[", "AB", "-", "2024", "-", "002", "]", ".">>

FindingTexts ==
  {Flatten(ps) : ps \in UNION {[1..n -> Pieces] : n \in 0..MaxPieces}} \cup {ExampleText}

InitExtract ==
  /\ store = [analysis |-> AnalysisPlain, hasEdits |-> FALSE, edits |-> EmptyMap,
              comments |-> EmptyMap, status |-> "pending_review"]
  /\ page = "enhanced"
  /\ caseId = "A"
  /\ showOnlyLowConfidence = FALSE
  /\ case_ = LoadedCase
  /\ edits = EmptyMap
  /\ comments = EmptyMap
  /\ loading = FALSE
  /\ saving = FALSE
  /\ error = ""
  /\ searchTerm = <<>>
  /\ selectedLegalRelevance = RelevanceLevels
  /\ inflight = {}
  /\ nOps = 0
  /\ lastOp = NoOp
  /\ cite \in {[NoCite EXCEPT !.text = t] : t \in FindingTexts}
  /\ lookup = NoLookup

\* renderStringItem: const { cleanText, recordIds } = extractRecordIds(item)
Extract ==
  /\ ~cite.done
  /\ cite' = [text |-> cite.text, done |-> TRUE,
               cleanText |-> extractRecordIds(cite.text).cleanText,
               recordIds |-> extractRecordIds(cite.text).recordIds]
  /\ UNCHANGED <<store, page, case_, edits, comments, loading, saving, error,
                 searchTerm, selectedLegalRelevance, inflight, nOps, lastOp, lookup,
                 caseId, showOnlyLowConfidence>>

NextExtract == Extract

SpecExtract == InitExtract /\ [][NextExtract]_vars

(* ======================================================================= *)
(*                        Source-record lookup                             *)
(* ======================================================================= *)
\* A source record carries its identifier in record_id, in id, or in both;
\* "" stands for a field the record does not have.
RecordShapes ==
  {[record_id |-> "R1", id |-> ""], [record_id |-> "", id |-> "R1"],
   [record_id |-> "R2", id |-> "R1"], [record_id |-> "R2", id |-> ""]}

RecordIdentifiers == {"R1", "R2", "R9"}

SeqsUpTo(S, n) == UNION {[1..k -> S] : k \in 0..n}

RECURSIVE FilterRecords(_, _, _)
FilterRecords(records, keep, k) ==
  IF k > Len(records) THEN <<>>
  ELSE (IF keep[k] THEN <<records[k]>> ELSE <<>>) \o FilterRecords(records, keep, k + 1)

\* original_records.find(r => r.record_id === id || r.id === id): the first
\* such record, or 0 when there is none
FindRecord(records, id) ==
  LET hits == {k \in 1..Len(records) : records[k].record_id = id \/ records[k].id = id}
  IN  IF hits = {} THEN 0 ELSE CHOOSE k \in hits : \A h \in hits : k <= h

Found(record) == [record_id |-> record.record_id, id |-> record.id, error |-> ""]

\* { record_id: id, error: 'Record not found' }
NotFound(id) == [record_id |-> id, id |-> "", error |-> "Record not found"]

\* CaseReview.openSourceModal(recordIds): one entry per identifier
openSourceModal(records, recordIds) ==
  [shown |-> [r \in 1..Len(recordIds) |->
                IF FindRecord(records, recordIds[r]) = 0
                THEN NotFound(recordIds[r])
                ELSE Found(records[FindRecord(records, recordIds[r])])],
   alerted |-> FALSE]

\* r.record_id || r.id
RecordKey(record) == IF record.record_id # "" THEN record.record_id ELSE record.id

\* EnhancedCaseReview.openSourcePanel(recordIds): the records whose key is
\* among the identifiers, in the order of original_records; an alert and no
\* panel when there is none
openSourcePanel(records, recordIds) ==
  LET keep == [k \in 1..Len(records) |->
                 \E r \in 1..Len(recordIds) : recordIds[r] = RecordKey(records[k])]
      matched == FilterRecords(records, keep, 1)
  IN  IF matched = <<>>
      THEN [shown |-> <<>>, alerted |-> TRUE]
      ELSE [shown |-> [k \in 1..Len(matched) |-> Found(matched[k])], alerted |-> FALSE]

\* EnhancedCaseReview.openSourceModal(recordId), the single-identifier form:
\* the record, or an alert and no modal
openSourceModalSingle(records, recordId) ==
  IF FindRecord(records, recordId) = 0
  THEN [shown |-> <<>>, alerted |-> TRUE]
  ELSE [shown |-> <<Found(records[FindRecord(records, recordId)])>>, alerted |-> FALSE]

InitLookup ==
  /\ store = [analysis |-> AnalysisPlain, hasEdits |-> FALSE, edits |-> EmptyMap,
              comments |-> EmptyMap, status |-> "pending_review"]
  /\ page \in {"review", "enhanced"}
  /\ caseId = "A"
  /\ showOnlyLowConfidence = FALSE
  /\ case_ = LoadedCase
  /\ edits = InitialEdits(LoadedCase)
  /\ comments = EmptyMap
  /\ loading = FALSE
  /\ saving = FALSE
  /\ error = ""
  /\ searchTerm = <<>>
  /\ selectedLegalRelevance = RelevanceLevels
  /\ inflight = {}
  /\ nOps = 0
  /\ lastOp = NoOp
  /\ cite = NoCite
  /\ lookup \in {[NoLookup EXCEPT !.records = rs, !.ids = ids] :
                   rs \in SeqsUpTo(RecordShapes, MaxRecords),
                   ids \in SeqsUpTo(RecordIdentifiers, MaxIds) \ {<<>>}}

LookupDone(fn, result) ==
  /\ lookup' = [lookup EXCEPT !.fn = fn, !.done = TRUE,
                              !.shown = result.shown, !.alerted = result.alerted]
  /\ UNCHANGED <<store, page, case_, edits, comments, loading, saving, error,
                 searchTerm, selectedLegalRelevance, inflight, nOps, lastOp, cite,
                 caseId, showOnlyLowConfidence>>

\* "View Source" on CaseReview
OpenSourceModal ==
  /\ page = "review" /\ ~lookup.done
  /\ LookupDone("openSourceModal", openSourceModal(lookup.records, lookup.ids))

\* a record-id badge on EnhancedCaseReview
OpenSourcePanel ==
  /\ page = "enhanced" /\ ~lookup.done
  /\ LookupDone("openSourcePanel", openSourcePanel(lookup.records, lookup.ids))

OpenSourceModalSingle ==
  /\ page = "enhanced" /\ ~lookup.done
  /\ Len(lookup.ids) = 1
  /\ LookupDone("openSourceModalSingle", openSourceModalSingle(lookup.records, lookup.ids[1]))

NextLookup == OpenSourceModal \/ OpenSourcePanel \/ OpenSourceModalSingle

SpecLookup == InitLookup /\ [][NextLookup]_vars

TypeOK ==
  /\ page \in {"review", "enhanced"}
  /\ caseId \in CaseIds
  /\ showOnlyLowConfidence \in BOOLEAN
  /\ loading \in BOOLEAN /\ saving \in BOOLEAN
  /\ nOps \in 0..MaxOps
  /\ selectedLegalRelevance \subseteq RelevanceLevels

(* ======================================================================= *)
(*                               Claims                                    *)
(* ======================================================================= *)
StatusNames == {"unchanged", "edited", "removed", "added"}

\* The CaseReview surface is showing a loaded case
Reviewing == page = "review" /\ Ready
Annotating == page = "enhanced" /\ Ready

\* The annotation store the CaseReview surface holds is the one that came
\* with the case (case_.comments).
Rekeyed(old, new, section, p) ==
  LET before == IF section \in DOMAIN old THEN old[section] ELSE [i \in {} |-> <<>>]
      after == IF section \in DOMAIN new THEN new[section] ELSE [i \in {} |-> <<>>]
  IN  /\ \A q \in DOMAIN before :
           /\ q > p => (q - 1) \in DOMAIN after /\ after[q - 1] = before[q]
           /\ q < p => q \in DOMAIN after /\ after[q] = before[q]
      /\ \A q \in DOMAIN after :
           IF q < p THEN q \in DOMAIN before ELSE (q + 1) \in DOMAIN before

\* C1: removeFinding(s, p) with p inside the section re-keys the comments of
\* s: the comment at each q > p moves to q - 1, the comment at p is gone, the
\* comments below p stay.
C1_RemoveRekeysComments ==
  [][\A section \in Sections : \A p \in 0..MaxIndex :
       ( /\ section \in DOMAIN edits
         /\ p < Len(edits[section])
         /\ removeListItem(section, p) )
       => Rekeyed(case_.comments, case_'.comments, section, p)]_vars

\* The status the reconciliation rule assigns to position i of original A
\* and edited E.  "Equals" is read the way most favourable to the code, as
\* its own comparison (===); C9 is the claim about structural equality.
RuleStatus(A, E, i) ==
  IF i < Len(A) /\ i >= Len(E) THEN "removed"
  ELSE IF i < Len(A) THEN (IF StrictEq(E[i + 1], A[i + 1]) THEN "unchanged" ELSE "edited")
  ELSE "added"

\* C2: for every section and every position below max(m, n) the status shown
\* is the one the rule assigns: removed iff i >= n, unchanged / edited by
\* equality of E[i] and A[i] below min(m, n), added for m <= i < n.
C2_StatusFollowsRule ==
  Reviewing =>
    \A section \in DOMAIN edits :
      \A i \in 0..(Max(Len(OrEmpty(case_.analysis, section)), Len(edits[section])) - 1) :
        getItemChangeStatus(section, i)
          = RuleStatus(OrEmpty(case_.analysis, section), edits[section], i)

\* C3: the original sections of the loaded case stay what the store holds
\* (the store never changes the analysis), whatever the reviewer does.
C3_OriginalImmutable ==
  case_.set => Stringify(case_.analysis) = store.analysis

\* C4 scenario: original "contradictions" of length 2, edited equal to it at
\* load; "+ Add", the new row typed as "new issue", then row 0 removed.
E2EDone ==
  /\ Reviewing
  /\ nOps = 3
  /\ lastOp = Op("remove", "contradictions", 0, <<>>)
  /\ Len(store.analysis["contradictions"]) = 2
  /\ Len(edits["contradictions"]) = 2
  /\ StructEq(edits["contradictions"][1], store.analysis["contradictions"][2])
  /\ edits["contradictions"][2] = Plain(<<"new issue">>)

SectionRate(section) ==
  LET m == SectionMetrics(section)
  IN  RoundPercent(m.edited + m.removed + m.added, m.totalAI)

NoEmptyComment(cm) == \A s \in DOMAIN cm : \A i \in DOMAIN cm[s] : cm[s][i] # <<>>

C5_NoEmptyComment ==
  /\ NoEmptyComment(comments)
  /\ NoEmptyComment(store.comments)
  /\ (lastOp.op = "comment" /\ lastOp.text = <<>>) =>
       /\ ~HasKey(comments, lastOp.section, lastOp.index)
       /\ getComment(lastOp.section, lastOp.index) = <<>>

C5_Witness ==
  /\ lastOp.op = "comment" /\ lastOp.text = <<>> /\ lastOp.prev # <<>>
  /\ comments # EmptyMap

\* the key renderSection hands to openCommentModal / hasComment / getComment
\* for row idx of a shown section
CommentKey(section, idx) == idx

\* C6: the key under which a displayed finding's comment is stored and read
\* is the finding's position in the unfiltered section, whatever the search
\* text and the facets.
C6_CommentKeyIsUnfilteredPosition ==
  Annotating =>
    \A section \in DOMAIN filteredSections :
      \A idx \in 0..(Len(filteredSections[section]) - 1) :
        CommentKey(section, idx) = UnfilteredPosition(section, idx)

\* sum over a set of sections of the original length / of max(0, n - m)
RECURSIVE TotalOriginal(_)
TotalOriginal(S) ==
  IF S = {} THEN 0
  ELSE LET s == CHOOSE y \in S : TRUE
       IN  Len(case_.analysis[s]) + TotalOriginal(S \ {s})

RECURSIVE TotalExtra(_)
TotalExtra(S) ==
  IF S = {} THEN 0
  ELSE LET s == CHOOSE y \in S : TRUE
       IN  Max(0, Len(OrEmpty(edits, s)) - Len(case_.analysis[s])) + TotalExtra(S \ {s})

\* C7: every position has one status of the four, the three counts over
\* original positions add up to totalOriginal, and addedCount is the sum of
\* max(0, n - m) over the sections.
C7_CountsPartition ==
  (Reviewing /\ calculateEditMetrics.valid) =>
    LET mt == calculateEditMetrics
    IN  /\ \A s \in DOMAIN edits :
             LET rows == sideBySideRows(s)
             IN  \A i \in DOMAIN rows : rows[i] \in StatusNames
        /\ mt.totalAI = TotalOriginal(DOMAIN case_.analysis)
        /\ mt.unchanged + mt.edited + mt.removed = mt.totalAI
        /\ mt.added = TotalExtra(DOMAIN case_.analysis)

C7_Witness ==
  /\ Reviewing /\ calculateEditMetrics.valid
  /\ calculateEditMetrics.added > 0
  /\ calculateEditMetrics.removed > 0
  /\ calculateEditMetrics.edited > 0
  /\ calculateEditMetrics.unchanged > 0

\* C8: updateFinding at a position past the end changes nothing.
C8_OutOfRangeChangesNothing ==
  [][\A section \in Sections : \A index \in 0..MaxIndex : \A value \in EditTexts :
       ( /\ section \in DOMAIN edits
         /\ index >= Len(edits[section])
         /\ updateListItem(section, index, value) )
       => /\ edits' = edits
          /\ case_' = case_
          /\ comments' = comments]_vars

\* C9: a structured finding whose edited value has the same fields and field
\* values as the original is unchanged, and counted so.
C9_StructuredComparedByValue ==
  (Reviewing /\ case_.hasEdits) =>
    \A section \in DOMAIN edits \cap DOMAIN case_.analysis :
      LET A == case_.analysis[section]
          E == edits[section]
          same == {i \in 0..(Min(Len(A), Len(E)) - 1) :
                     A[i + 1].kind = "obj" /\ StructEq(A[i + 1], E[i + 1])}
      IN  /\ \A i \in same : getItemChangeStatus(section, i) = "unchanged"
          /\ SectionMetrics(section).unchanged >= Cardinality(same)

\* C10: per shown section, the number of rows of the side-by-side view with
\* each status is the section's contribution to the count of that status.
RowsWith(section, status) ==
  LET rows == sideBySideRows(section)
  IN  Cardinality({i \in DOMAIN rows : rows[i] = status})

OriginalAsLoaded == Parse(store.analysis, 1)

\* The classifier of getItemChangeStatus applied to an original array A and
\* an edited array E (the arrays are its only inputs).
StatusOf(A, E, index) ==
  IF index >= Len(A) THEN "added"
  ELSE IF ~Truthy(At(E, index)) THEN "removed"
  ELSE IF ~StrictEq(At(A, index), At(E, index)) THEN "edited"
  ELSE "unchanged"

CountOf(A, E, status) ==
  IF status = "added" THEN Max(0, Len(E) - Len(A))
  ELSE Cardinality({i \in 0..(Len(A) - 1) : StatusOf(A, E, i) = status})

\* C11: whatever the reviewer did since the load, saved or not, and whether
\* or not the case came with stored edits, the status on every row and the
\* metrics (where the panel is shown) are the classification of the working
\* copy (edits) against the original sections.
C11_ShownIsClassificationOfWorkingCopy ==
  Reviewing =>
    \A section \in DOMAIN edits :
      LET A == OrEmpty(OriginalAsLoaded, section)
          E == edits[section]
      IN  /\ \A i \in 0..(Max(Len(A), Len(E)) - 1) :
               getItemChangeStatus(section, i) = StatusOf(A, E, i)
          /\ calculateEditMetrics.valid =>
               \A status \in StatusNames :
                 SectionMetrics(section)[status] = CountOf(A, E, status)

\* C11 holds where the case came with stored edits: the working copy and
\* case_.edits share their arrays.
C11_HoldsWithStoredEdits == case_.hasEdits => C11_ShownIsClassificationOfWorkingCopy

\* what each surface holds as editedSections and as the annotation store
CurrentEditedSections == IF page = "review" THEN edits ELSE InitialEdits(case_)
CurrentComments == IF page = "review" THEN case_.comments ELSE comments

SaveSent == (SaveEdits \/ SaveComments) /\ inflight' # inflight

\* the request a save step has just put in flight carries the whole of the
\* edited sections and the whole of the annotation store
CarriesWorkingCopy ==
  SaveSent =>
    \A req \in inflight' \ inflight :
      /\ req.edits = Stringify(CurrentEditedSections)
      /\ req.hasComments
      /\ req.comments = CurrentComments

\* a save sent right after a save succeeded, nothing else having run since
\* that save was sent, would store what is stored
RepeatedSaveStoresTheSame ==
  (SaveSent /\ lastOp.op = "saved") =>
    \A req \in inflight' \ inflight :
      /\ StoreAfterSave(req).edits = store.edits
      /\ StoreAfterSave(req).comments = store.comments

\* C12: every save request, from either surface, carries the complete
\* current edited sections and the complete current annotation store, and a
\* second save with no edit in between persists what the first persisted.
C12_SaveCarriesWholeWorkingCopy ==
  [][CarriesWorkingCopy /\ RepeatedSaveStoresTheSame]_vars

\* the second half of C12 on its own
C12_RepeatedSaveIdempotent == [][RepeatedSaveStoresTheSame]_vars

\* the surface offers its save button and pressing it sends a request
SaveAvailable == ENABLED (SaveEdits \/ SaveComments)

\* a failed save leaves the working copy and the annotation store as they were
FailedSaveKeepsWorkingCopy ==
  [][SaveFail => edits' = edits /\ comments' = comments /\ case_' = case_]_vars

\* once set, the error text stays: no handler clears it
ErrorNeverCleared == [][error # "" => error' # ""]_vars

\* the error screen replaces the whole surface, save button included
NoSaveBehindErrorScreen == error # "" => ~SaveAvailable

\* C13: after a failed save an error is shown and the reviewer can save
\* again from the same working copy without reloading.  (With
\* ErrorNeverCleared and NoSaveBehindErrorScreen, "available right after the
\* failure" and "available in some later state" are the same.)
C13_FailedSaveCanBeRetried ==
  (lastOp.op = "saveFailed" /\ nOps < MaxOps) =>
    /\ error # ""
    /\ SaveAvailable

\* a failed load sends nothing: the loads in flight after it were in flight
NoLoadIssued == {req \in inflight' : req.type = "load"} \subseteq Pending("load")

\* C14 as stated: when a load fails the case is unset afterwards, an error
\* text is shown, loading has ended, and no load is issued on its own.
C14_FailedLoadLeavesCaseUnset ==
  [][FetchCaseFail =>
       /\ ~case_'.set
       /\ error' # ""
       /\ ~loading'
       /\ NoLoadIssued]_vars

\* C14 amended: a failed load leaves the case in memory as it was: unset
\* when the failed load was the first one (loading still TRUE), the case
\* loaded before when it was the refresh after a status update.  In both an
\* error text is shown, loading has ended, and no load is issued on its own.
C14_FailedLoadLeavesCaseAsItWas ==
  [][FetchCaseFail =>
       /\ case_' = case_ /\ edits' = edits /\ comments' = comments
       /\ loading => ~case_'.set
       /\ error' # ""
       /\ ~loading'
       /\ NoLoadIssued]_vars

\* the refresh after a status update has failed: the case of before stays
C14_Witness ==
  /\ lastOp.op = "loadFailed"
  /\ case_.set
  /\ error # "" /\ ~loading
  /\ store.status = "approved" /\ case_.status = "pending_review"

\* C15: at most one save request is outstanding at any time; while one is,
\* the saving flag is up and the surface does not take another save.
C15_OneSaveOutstanding ==
  /\ Cardinality(Pending("save")) <= 1
  /\ Pending("save") # {} => (saving /\ ~SaveAvailable)

\* a save is outstanding and nothing but the saving flag keeps the reviewer
\* from sending another
C15_Witness ==
  /\ Cardinality(Pending("save")) = 1
  /\ Ready /\ nOps < MaxOps /\ Cardinality(inflight) < MaxInflight
  /\ saving /\ ~SaveAvailable

\* the field values of a finding, concatenated (a plain finding: its text)
FieldValues(item) ==
  IF item.kind = "str" THEN item.text
  ELSE item.text \o (IF item.rel = "none" THEN <<>> ELSE <<item.rel>>)

\* the positions of `value` the filter contract makes visible
WantedVisible(value) ==
  {i \in 1..Len(value) :
     /\ value[i].rel = "none" \/ value[i].rel \in selectedLegalRelevance
     /\ \/ searchTerm = <<>>
        \/ Includes(ToLower(FieldValues(value[i])), ToLower(searchTerm))}

\* C16: a finding is in the filtered result iff (a) it has no relevance or
\* its relevance is an active facet, and (b) the query is empty or is a
\* case-insensitive substring of the finding's text (plain finding) or of
\* its concatenated field values (structured finding).
C16_VisibleIffRelevantAndMatching ==
  Annotating =>
    \A section \in DOMAIN case_.analysis :
      /\ Visible(case_.analysis[section]) = WantedVisible(case_.analysis[section])
      /\ section \in DOMAIN filteredSections <=>
           WantedVisible(case_.analysis[section]) # {}

\* C17: every key of the filtered result maps to a non-empty list, and a
\* section none of whose findings is visible is no key; with only the facet
\* "high" active and no query, no structured finding of relevance "low" is
\* in its section's list.
C17_NoEmptySectionInView ==
  Annotating =>
    LET view == filteredSections
    IN  /\ \A section \in DOMAIN view : Len(view[section]) > 0
        /\ \A section \in DOMAIN case_.analysis :
             Visible(case_.analysis[section]) = {} => section \notin DOMAIN view
        /\ (selectedLegalRelevance = {"high"} /\ searchTerm = <<>>) =>
             \A section \in DOMAIN view : \A r \in 1..Len(view[section]) :
               ~(view[section][r].kind = "obj" /\ view[section][r].rel = "low")

\* the facets have emptied a structured section, and it is not in the view
C17_Witness ==
  /\ Annotating
  /\ searchTerm = <<>>
  /\ \E section \in DOMAIN case_.analysis \ DOMAIN filteredSections :
       isStructuredArray(case_.analysis[section])

\* only "high" is active: the section shows its high finding, not its low one
C17_WitnessHighOnly ==
  /\ Annotating
  /\ selectedLegalRelevance = {"high"} /\ searchTerm = <<>>
  /\ "contradictions" \in DOMAIN filteredSections
  /\ \E i \in 1..Len(case_.analysis["contradictions"]) :
       case_.analysis["contradictions"][i].rel = "low"

\* view is full with some elements left out, the others in their order
IsSubsequence(view, full) ==
  \E f \in [1..Len(view) -> 1..Len(full)] :
    /\ \A r \in 1..Len(view) : StructEq(view[r], full[f[r]])
    /\ \A r \in 1..(Len(view) - 1) : f[r] < f[r + 1]

ViewIsOfEditedSections ==
  Annotating =>
    \A section \in DOMAIN filteredSections :
      /\ section \in DOMAIN CurrentEditedSections
      /\ IsSubsequence(filteredSections[section], CurrentEditedSections[section])

\* changing the query or the facets changes no finding and no comment
FilterChangesNoData ==
  (SetSearchTerm \/ ToggleFacet) => UNCHANGED <<case_, edits, comments, store>>

\* C18: the filtered view shows findings of the current edited sections, in
\* their order, and changing the query or the facets leaves the edited
\* sections, the original sections and the comments as they are.
C18_ViewIsDisplayOfEditedSections ==
  [][ViewIsOfEditedSections /\ FilterChangesNoData]_vars

\* the second half of C18 on its own
C18_FilterIsReadOnly == [][FilterChangesNoData]_vars

(* ------------------------- bracketed identifiers ----------------------- *)
RECURSIVE TotalChars(_, _)
TotalChars(t, class) ==
  IF t = <<>> THEN 0 ELSE CharLen(Head(t), class) + TotalChars(Tail(t), class)

AllOfClass(t, class) == \A i \in 1..Len(t) : CharLen(t[i], class) > 0

\* t is a bracketed identifier: "[", two or more upper-case letters, "-",
\* four digits, "-", one or more digits, "]"
IsBracketedId(t) ==
  /\ Len(t) >= 7 /\ t[1] = "[" /\ t[Len(t)] = "]"
  /\ \E b \in 2..(Len(t) - 1) : t[b] = "-" /\ \E d \in (b + 1)..(Len(t) - 1) :
       /\ t[d] = "-"
       /\ AllOfClass(SubSeq(t, 2, b - 1), "upper")
       /\ TotalChars(SubSeq(t, 2, b - 1), "upper") >= 2
       /\ AllOfClass(SubSeq(t, b + 1, d - 1), "digit")
       /\ TotalChars(SubSeq(t, b + 1, d - 1), "digit") = 4
       /\ AllOfClass(SubSeq(t, d + 1, Len(t) - 1), "digit")
       /\ d + 1 <= Len(t) - 1

\* where the bracketed identifiers of a text start, and where each ends
IdStarts(text) ==
  {k \in 1..Len(text) :
     text[k] = "[" /\ \E f \in k..Len(text) :
                       text[f] = "]" /\ IsBracketedId(SubSeq(text, k, f))}
IdEnd(text, k) ==
  CHOOSE f \in k..Len(text) : text[f] = "]" /\ IsBracketedId(SubSeq(text, k, f))

\* the positions of a text that are inside one of its bracketed identifiers
InSomeId(text) == UNION {k..IdEnd(text, k) : k \in IdStarts(text)}

\* the identifiers of a text, left to right, without their brackets
IdsOf(text) ==
  LET starts == Ascending(IdStarts(text))
  IN  [r \in 1..Len(starts) |-> SubSeq(text, starts[r] + 1, IdEnd(text, starts[r]) - 1)]

\* the text with exactly its bracketed identifiers taken out
RECURSIVE Without(_, _, _)
Without(text, positions, i) ==
  IF i > Len(text) THEN <<>>
  ELSE (IF i \in positions THEN <<>> ELSE <<text[i]>>) \o Without(text, positions, i + 1)

WithoutIds(text) == Without(text, InSomeId(text), 1)

ExampleHolds ==
  cite.text = ExampleText =>
    /\ cite.cleanText = <<"w", " ", "w", " ", ".">>
    /\ cite.recordIds = << <<"AB", "-", "2024", "-", "001">>,
                          <<"AB", "-", "2024", "-", "002">> >>

\* C19 as stated: extractRecordIds returns every bracketed identifier of
\* the text, left to right, and the text from which exactly those bracketed
\* tokens are removed.
C19_ExtractAsStated ==
  cite.done =>
    /\ cite.recordIds = IdsOf(cite.text)
    /\ cite.cleanText = WithoutIds(cite.text)
    /\ ExampleHolds

\* C19 amended: the identifiers are as stated; the cleaned text is the text
\* with those bracketed tokens removed and then trimmed of the white space
\* at its two ends.
C19_ExtractThenTrim ==
  cite.done =>
    /\ cite.recordIds = IdsOf(cite.text)
    /\ cite.cleanText = Trim(WithoutIds(cite.text))
    /\ ExampleHolds

\* two identifiers extracted, and the removal left white space at an end
C19_Witness ==
  /\ cite.done
  /\ Len(cite.recordIds) = 2
  /\ cite.recordIds[1] # cite.recordIds[2]
  /\ WithoutIds(cite.text) # Trim(WithoutIds(cite.text))

\* C20 as stated: a text with no bracketed identifier gives no identifier
\* and a cleaned text that is exactly the input.
C20_NoIdTextUnmodified ==
  (cite.done /\ IdStarts(cite.text) = {}) =>
    /\ cite.recordIds = <<>>
    /\ cite.cleanText = cite.text

\* C20 amended: a text with no bracketed identifier gives no identifier and
\* a cleaned text that is the input without the white space at its two ends
\* (exactly the input when it neither starts nor ends with white space).
C20_NoIdTextTrimmed ==
  (cite.done /\ IdStarts(cite.text) = {}) =>
    /\ cite.recordIds = <<>>
    /\ cite.cleanText = Trim(cite.text)
    /\ (cite.text = <<>> \/ (~IsSpace(Head(cite.text)) /\ ~IsSpace(cite.text[Len(cite.text)])))
         => cite.cleanText = cite.text

\* a text with a bracketed token that is no identifier and white space in
\* front: nothing is extracted, the text comes back trimmed
C20_Witness ==
  /\ cite.done
  /\ IdStarts(cite.text) = {}
  /\ \E i \in 1..Len(cite.text) : cite.text[i] = "["
  /\ cite.text # <<>> /\ IsSpace(Head(cite.text))
  /\ cite.cleanText # cite.text


\* What a lookup owes each identifier: the record it names (by record_id or
\* by id), or a not-found placeholder naming the identifier.
Resolved(records, id, entry) ==
  IF FindRecord(records, id) = 0
  THEN entry.error # "" /\ entry.record_id = id
  ELSE entry.error = "" /\ (entry.record_id = id \/ entry.id = id)

\* C21: a lookup never fails as a whole: it shows one entry per identifier,
\* the matching record for an identifier equal to a record's record_id or id
\* and a not-found placeholder for an unmatched one.
C21_EveryIdentifierResolved ==
  lookup.done =>
    /\ ~lookup.alerted
    /\ Len(lookup.shown) = Len(lookup.ids)
    /\ \A r \in 1..Len(lookup.ids) :
         Resolved(lookup.records, lookup.ids[r], lookup.shown[r])

\* CaseReview.openSourceModal does resolve every identifier.
C21_HoldsOnCaseReview ==
  lookup.fn = "openSourceModal" => C21_EveryIdentifierResolved


\* C22 as stated: enhancementRate is the ratio of the changed findings to
\* the original findings, (edited + removed + added) / totalAI, and 0 when
\* there is no original finding; for [x, y, z] against [x, Y, z, w] it is 2/3.
C22_RateIsRatio ==
  LET m == calculateEditMetrics
  IN  m.valid =>
        IF m.totalAI = 0 THEN m.enhancementRate = 0
        ELSE m.enhancementRate * m.totalAI = m.edited + m.removed + m.added

\* The stored case of the example: original [x, y, z], saved edits [x, Y, z, w]
IsExample ==
  /\ case_.set /\ case_.hasEdits
  /\ Stringify(case_.analysis) = Stringify(AnalysisThree)
  /\ Stringify(case_.edits) = Stringify(EditedThree)

\* C22, amended: enhancementRate is that ratio as a whole percentage, the
\* integer nearest to 100 * (edited + removed + added) / totalAI with a half
\* rounded up, and 0 when there is no original finding; the example gives 67.
C22_RateIsRoundedPercent ==
  LET m == calculateEditMetrics
      changed == m.edited + m.removed + m.added
  IN  m.valid =>
        /\ IF m.totalAI = 0 THEN m.enhancementRate = 0
           ELSE /\ 2 * m.totalAI * m.enhancementRate > 200 * changed - m.totalAI
                /\ 2 * m.totalAI * m.enhancementRate <= 200 * changed + m.totalAI
        /\ IsExample => m.enhancementRate = 67

\* one of three original findings retyped and one finding added: 67
C22_Witness ==
  /\ lastOp.op = "add"
  /\ calculateEditMetrics.valid
  /\ calculateEditMetrics.totalAI = 3
  /\ calculateEditMetrics.edited = 1 /\ calculateEditMetrics.added = 1
  /\ calculateEditMetrics.removed = 0
  /\ calculateEditMetrics.enhancementRate = 67

\* no original finding, one added: the rate is 0
C22_WitnessNoOriginal ==
  /\ calculateEditMetrics.valid
  /\ calculateEditMetrics.totalAI = 0 /\ calculateEditMetrics.added = 1
  /\ calculateEditMetrics.enhancementRate = 0


\* Sections the working copy or the stored edits have and the analysis lacks
AbsentFromOriginal ==
  (DOMAIN edits \cup DOMAIN case_.edits) \ DOMAIN case_.analysis

AddedIn(section) ==
  IF section \in DOMAIN case_.analysis
  THEN Max(0, Len(OrEmpty(case_.edits, section)) - Len(case_.analysis[section]))
  ELSE 0

\* The counts are those of the sections of the analysis alone.
AbsentSectionNotCounted ==
  LET m == calculateEditMetrics
  IN  (m.valid /\ AbsentFromOriginal # {}) =>
        /\ m.unchanged + m.edited + m.removed = m.totalAI
        /\ m.totalAI = Len(OrEmpty(case_.analysis, "contradictions"))
                         + Len(OrEmpty(case_.analysis, "timeline"))
        /\ m.added = AddedIn("contradictions") + AddedIn("timeline")

\* C23: a section that the edited sections have and the original sections
\* lack is left out of reconciliation: it adds to no case-level count, and no
\* position of it is shown with a change status.
C23_AbsentSectionExcluded ==
  (case_.set /\ case_.hasEdits) =>
    /\ AbsentSectionNotCounted
    /\ \A section \in DOMAIN edits \ DOMAIN case_.analysis :
         \A idx \in DOMAIN sideBySideRows(section) :
           sideBySideRows(section)[idx] \notin StatusNames


\* after is before with the element at position p (counted from 0) taken out
DeletedAt(before, after, p) ==
  /\ Len(after) = Len(before) - 1
  /\ \A q \in 0..(Len(before) - 1) :
       /\ q < p => after[q + 1] = before[q + 1]
       /\ q > p => after[q] = before[q + 1]

\* C24: removeFinding(section, p) with p inside the section deletes exactly
\* the element at p: the section is one shorter, the elements before p stay
\* where they are, each element after p moves down by one, and every other
\* section is unchanged.
C24_RemoveDeletesExactlyOne ==
  [][\A section \in Sections : \A p \in 0..MaxIndex :
       ( /\ section \in DOMAIN edits
         /\ p < Len(edits[section])
         /\ removeListItem(section, p) )
       => /\ DOMAIN edits' = DOMAIN edits
          /\ DeletedAt(edits[section], edits'[section], p)
          /\ \A other \in DOMAIN edits \ {section} : edits'[other] = edits[other]]_vars

\* the first of two contradictions removed: y has moved down to position 0
C24_Witness ==
  /\ nOps = 1 /\ lastOp.op = "remove"
  /\ lastOp.section = "contradictions" /\ lastOp.index = 0
  /\ Len(edits["contradictions"]) = 1
  /\ edits["contradictions"][1] = Plain(<<"y">>)
  /\ Len(edits["timeline"]) = 1


\* after is before with one element more at the end, the rest in place
AppendedTo(before, after) ==
  /\ Len(after) = Len(before) + 1
  /\ \A q \in 1..Len(before) : after[q] = before[q]

\* C25 as stated: addFinding(section, value) appends value as the last
\* element of the section: the section is one longer, every existing position
\* keeps its finding, and the annotation store is unchanged.
C25_AddAppendsValue ==
  [][\A section \in Sections : \A value \in EditTexts :
       (section \in DOMAIN edits /\ addListItem(section))
       => /\ AppendedTo(edits[section], edits'[section])
          /\ edits'[section][Len(edits'[section])] = Plain(value)
          /\ case_'.comments = case_.comments /\ comments' = comments]_vars

\* C25, amended: addListItem(section) takes no value and appends the empty
\* string: the section is one longer, every existing position keeps its
\* finding, the new last element is '', the other sections and the
\* annotation store are unchanged.
C25_AddAppendsEmpty ==
  [][\A section \in Sections :
       (section \in DOMAIN edits /\ addListItem(section))
       => /\ AppendedTo(edits[section], edits'[section])
          /\ edits'[section][Len(edits'[section])] = Plain(<<>>)
          /\ \A other \in DOMAIN edits \ {section} : edits'[other] = edits[other]
          /\ case_'.comments = case_.comments /\ comments' = comments]_vars

\* a third contradiction added: '' at position 2, x and y where they were
C25_Witness ==
  /\ nOps = 1 /\ lastOp.op = "add" /\ lastOp.section = "contradictions"
  /\ Len(edits["contradictions"]) = 3
  /\ edits["contradictions"][3] = Plain(<<>>)
  /\ edits["contradictions"][2] = Plain(<<"y">>)


\* The steps that make up one status update on CaseReview: the answer to the
\* request, and on success the reload that the answer starts.
StatusUpdateStep ==
  /\ page = "review" /\ case_.set
  /\ lastOp'.op \in {"statusUpdated", "statusFailed", "load"}

\* C26: a status transition is a field update only: when updateStatus has
\* completed, successfully or not, the working copy (unsaved edits included)
\* and the comments are what they were before.
C26_StatusUpdateKeepsWorkingCopy ==
  [][StatusUpdateStep =>
       /\ Stringify(edits') = Stringify(edits)
       /\ case_'.comments = case_.comments]_vars

\* The answer to the status request itself changes neither.
C26_AnswerKeepsWorkingCopy ==
  [][(StatusOk \/ StatusFail) => (edits' = edits /\ case_' = case_)]_vars


\* original positions of a section that the stored edits no longer reach
BeyondEdited(section) ==
  {i \in 0..(Len(case_.analysis[section]) - 1) : i >= Len(OrEmpty(case_.edits, section))}

\* C27: there is no tombstone value: removed is the status of the original
\* positions i >= n and of no other; a position below min(m, n) is never
\* removed, whatever value the edited section holds there (the empty string
\* written by updateFinding included), and the removed count counts the
\* positions i >= n.
C27_NoTombstone ==
  (Reviewing /\ case_.hasEdits) =>
    /\ \A section \in DOMAIN case_.analysis :
         \A i \in 0..(Len(case_.analysis[section]) - 1) :
           getItemChangeStatus(section, i) = "removed" <=> i \in BeyondEdited(section)
    /\ calculateEditMetrics.removed
         = Cardinality({<<section, i>> \in Sections \X (0..MaxIndex) :
                          section \in DOMAIN case_.analysis /\ i \in BeyondEdited(section)})

\* Where the edited finding is not the empty string, removed is exactly the
\* status of the positions i >= n.
C27_RemovedOnlyBeyondOrEmpty ==
  (Reviewing /\ case_.hasEdits) =>
    \A section \in DOMAIN case_.analysis :
      \A i \in 0..(Len(case_.analysis[section]) - 1) :
        getItemChangeStatus(section, i) = "removed"
          <=> (i \in BeyondEdited(section) \/ ~Truthy(At(case_.edits[section], i)))


\* The position in edits[section] of the finding that the k-th displayed row
\* shows: the k-th position that passes the filter, every position when the
\* filter is off.
RowPosition(section, k) ==
  Ascending({i \in 0..(Len(edits[section]) - 1) :
               showOnlyLowConfidence
                 => extractConfidenceFromText(edits[section][i + 1]) = "low"})[k + 1]

\* after differs from before at position p (counted from 0) at most
ChangedOnlyAt(before, after, p) ==
  /\ Len(after) = Len(before)
  /\ \A q \in 0..(Len(before) - 1) : q # p => after[q + 1] = before[q + 1]

\* C28: in the single-column editable view an edit or a remove fired from
\* the k-th displayed row changes exactly the finding that this row displays,
\* at its own position, also when the section holds two equal findings and
\* when the low-confidence filter is on.
C28_RowHandlersHitOwnRow ==
  [][\A section \in Sections : \A k \in 0..MaxIndex :
       (Reviewing /\ section \in DOMAIN edits /\ k < Len(DisplayItems(section)))
       => /\ \A value \in EditTexts :
               updateListItem(section, ActualIndex(section, k), value)
               => /\ ChangedOnlyAt(edits[section], edits'[section], RowPosition(section, k))
                  /\ edits'[section][RowPosition(section, k) + 1] = Plain(value)
          /\ removeListItem(section, ActualIndex(section, k))
               => DeletedAt(edits[section], edits'[section], RowPosition(section, k))]_vars

\* Where no two findings of the section are equal, the handlers of a row do
\* get the position of the row.
C28_HoldsWithoutEqualFindings ==
  Reviewing =>
    \A section \in DOMAIN edits :
      (\A i, j \in 1..Len(edits[section]) :
         StrictEq(edits[section][i], edits[section][j]) => i = j)
      => \A k \in 0..(Len(DisplayItems(section)) - 1) :
           ActualIndex(section, k) = RowPosition(section, k)


\* C29: when two loads overlap, the case, the working copy and the comments
\* finally held are those returned for the load issued last; the reply to an
\* older request never overwrites the result of a newer one.
C29_LatestLoadWins ==
  (Pending("load") = {} /\ error = "" /\ case_.set) =>
    /\ case_ = ReplyFor(caseId)
    /\ page = "review" => edits = InitialEdits(ReplyFor(caseId))
    /\ page = "enhanced" => comments = ReplyFor(caseId).comments

\* A reply is applied as it arrives: what is held after a reply is the case
\* of the request this reply answers.
C29_LastReplyWins ==
  [][FetchCaseOk => \E req \in Pending("load") : case_' = ReplyFor(req.caseId)]_vars


HasNonWhitespace(t) == \E k \in 1..Len(t) : ~IsSpace(t[k])

\* C30: after any sequence of saveComment calls on an empty store, every
\* stored comment has a character that is not whitespace (a text of
\* whitespace only clears the entry as an empty text does), a comment that is
\* kept is stored as typed, untrimmed, and no section key maps to an empty
\* inner map.
C30_StoredCommentsNotBlank ==
  /\ \A s \in DOMAIN comments :
       /\ DOMAIN comments[s] # {}
       /\ \A i \in DOMAIN comments[s] : HasNonWhitespace(comments[s][i])
  /\ lastOp.op = "comment" =>
       IF HasNonWhitespace(lastOp.text)
       THEN /\ HasKey(comments, lastOp.section, lastOp.index)
            /\ comments[lastOp.section][lastOp.index] = lastOp.text
       ELSE ~HasKey(comments, lastOp.section, lastOp.index)

\* a text of whitespace only has cleared the last comment of a section, and
\* the other section holds a comment with its whitespace kept
C30_Witness ==
  /\ lastOp.op = "comment" /\ lastOp.text = <<" ", " ">> /\ lastOp.prev # <<>>
  /\ lastOp.section \notin DOMAIN comments
  /\ \E s \in DOMAIN comments : \E i \in DOMAIN comments[s] :
       comments[s][i] = <<" ", "a", " ">>

====
